---- MODULE Spec2Model ----
(***************************************************************************)
(* Model of the lunchmoney client methods for crypto assets and            *)
(* transactions: input validation, filter encoding, the HTTP call, JSON    *)
(* decoding and response validation.  One action is one whole method call; *)
(* the state is the record of the last call: its arguments, the requests   *)
(* it issued, the response the transport produced, the steps it went       *)
(* through, and the (result, error) pair it returned.                      *)
(*                                                                         *)
(* Representation.  A Go pointer is a sequence of length at most one       *)
(* (<<>> is nil, <<v>> points at v).  A Go error is the chain of its       *)
(* messages, outermost first (<<>> is the nil error; fmt.Errorf with %w    *)
(* prepends a message).  Calendar-date strings are sequences of            *)
(* one-character strings so that the date layout can be parsed; all other  *)
(* strings are plain strings.  A JSON value is a record tagged by its JSON *)
(* type, a JSON object a function from its keys.                           *)
(***************************************************************************)
EXTENDS Integers, Sequences, FiniteSets, TLC

VARIABLES op, args, response, requests, steps, result, err

vars == <<op, args, response, requests, steps, result, err>>

(***************************************************************************)
(* Bounds of the model.                                                    *)
(***************************************************************************)
MaxLen == 2     \* longest array in a response envelope
MaxId == 2      \* largest resource id passed to a method

Ids == 1..MaxId

(***************************************************************************)
(* Pointers, errors, results.                                              *)
(***************************************************************************)
NilPtr == <<>>
Ptr(v) == <<v>>

NoErr == <<>>
NewErr(msg) == <<msg>>

NilResult == [kind |-> "nil"]
ListResult(items) == [kind |-> "list", items |-> items]
RecordResult(rec) == [kind |-> "record", rec |-> rec]
MapResult(m) == [kind |-> "map", map |-> m]

EmptyMap == [k \in {} |-> ""]

\* fmt.Errorf("<prefix>: %w", e): a new error whose message starts with the
\* prefix and which wraps e.
Wrap(prefix, e) == <<prefix>> \o e

\* %d of fmt.Sprintf
FmtInt(n) == ToString(n)

(***************************************************************************)
(* JSON values.                                                            *)
(***************************************************************************)
JNull == [t |-> "null"]
JNum(n) == [t |-> "num", v |-> n]
JStr(s) == [t |-> "str", v |-> s]
JBool(b) == [t |-> "bool", v |-> b]
JArr(s) == [t |-> "arr", v |-> s]
JObj(o) == [t |-> "obj", v |-> o]

\* the value of key k of a JSON object; a missing key leaves a decoded field
\* untouched, exactly as null does
Lookup(obj, k) == IF k \in DOMAIN obj THEN obj[k] ELSE JNull

(***************************************************************************)
(* Calendar dates: time.Parse with the layout "2006-01-02", which is what  *)
(* the validator's datetime rule calls.                                    *)
(***************************************************************************)
DigitChars == {"0", "1", "2", "3", "4", "5", "6", "7", "8", "9"}

DigitVal(c) ==
    CASE c = "0" -> 0 [] c = "1" -> 1 [] c = "2" -> 2 [] c = "3" -> 3
      [] c = "4" -> 4 [] c = "5" -> 5 [] c = "6" -> 6 [] c = "7" -> 7
      [] c = "8" -> 8 [] c = "9" -> 9

IsLeap(y) == (y % 4 = 0) /\ ((y % 100 # 0) \/ (y % 400 = 0))

DaysIn(m, y) ==
    IF m = 2 THEN (IF IsLeap(y) THEN 29 ELSE 28)
    ELSE IF m \in {4, 6, 9, 11} THEN 30 ELSE 31

\* four digits, "-", two digits, "-", two digits and nothing after them; the
\* month in 1..12 and the day within the month
ParseDateOK(s) ==
    /\ Len(s) = 10
    /\ \A i \in {1, 2, 3, 4, 6, 7, 9, 10} : s[i] \in DigitChars
    /\ s[5] = "-"
    /\ s[8] = "-"
    /\ LET y == 1000 * DigitVal(s[1]) + 100 * DigitVal(s[2])
                 + 10 * DigitVal(s[3]) + DigitVal(s[4])
           m == 10 * DigitVal(s[6]) + DigitVal(s[7])
           d == 10 * DigitVal(s[9]) + DigitVal(s[10])
       IN  /\ m >= 1 /\ m <= 12
           /\ d >= 1 /\ d <= DaysIn(m, y)

\* the dates the model passes around
DateGood == <<"2", "0", "2", "1", "-", "0", "2", "-", "1", "0">>
DateSlash == <<"0", "2", "/", "1", "0", "/", "2", "0", "2", "1">>
DateFeb30 == <<"2", "0", "2", "1", "-", "0", "2", "-", "3", "0">>
DateEmpty == <<>>

DateStrings == {DateEmpty, DateGood, DateSlash, DateFeb30}

(***************************************************************************)
(* The validator (go-playground/validator): Struct(x) fails on a nil       *)
(* pointer, applies the rules of the tagged fields, and reports every      *)
(* failed field in one error.  A field without a tag is not looked into    *)
(* unless it is itself a struct: the elements of a slice are validated     *)
(* only under a "dive" tag.                                                *)
(***************************************************************************)
FieldError(strct, fld, tag) ==
    "Key: '" \o strct \o "." \o fld \o "' Error:Field validation for '"
        \o fld \o "' failed on the '" \o tag \o "' tag"

InvalidValidationError == NewErr("validator: (nil pointer)")

\* the error for a sequence of failed-field messages
ValidationErrors(msgs) ==
    IF msgs = <<>> THEN NoErr
    ELSE IF Len(msgs) = 1 THEN NewErr(msgs[1])
    ELSE NewErr(msgs[1] \o "\n" \o msgs[2])

\* validate:"omitempty,datetime=2006-01-02" on a string field
OmitemptyDatetime(s) == s = DateEmpty \/ ParseDateOK(s)

\* validate:"omitnil,datetime=2006-01-02" on a *string field
OmitnilDatetime(p) == p = NilPtr \/ ParseDateOK(p[1])

\* validate:"omitnil,oneof=cleared uncleared" on a *string field
OmitnilOneofStatus(p) == p = NilPtr \/ p[1] \in {"cleared", "uncleared"}

(***************************************************************************)
(* TransactionFilters, its validation and ToMap.                           *)
(***************************************************************************)
FilterInts == {0, 25}

TransactionFilters ==
    [TagID : FilterInts, RecurringID : FilterInts, PlaidAccountID : FilterInts,
     CategoryID : FilterInts, AssetID : FilterInts, Offset : FilterInts,
     Limit : FilterInts, StartDate : DateStrings, EndDate : DateStrings,
     DebitAsNegative : BOOLEAN]

\* the fields in declaration order, with their JSON keys
FilterKeys ==
    <<"tag_id", "recurring_id", "plaid_account_id", "category_id", "asset_id",
      "offset", "limit", "start_date", "end_date", "debit_as_negative">>

ValidateFilters(f) ==
    ValidationErrors(
        (IF OmitemptyDatetime(f.StartDate) THEN <<>>
         ELSE <<FieldError("TransactionFilters", "StartDate", "datetime")>>)
        \o
        (IF OmitemptyDatetime(f.EndDate) THEN <<>>
         ELSE <<FieldError("TransactionFilters", "EndDate", "datetime")>>))

\* json.Marshal of a TransactionFilters: no field is tagged omitempty, so
\* every field is written, the integers as JSON numbers, the flag as a JSON
\* boolean
MarshalFilters(f) ==
    [k \in {FilterKeys[i] : i \in 1..Len(FilterKeys)} |->
        CASE k = "tag_id" -> JNum(f.TagID)
          [] k = "recurring_id" -> JNum(f.RecurringID)
          [] k = "plaid_account_id" -> JNum(f.PlaidAccountID)
          [] k = "category_id" -> JNum(f.CategoryID)
          [] k = "asset_id" -> JNum(f.AssetID)
          [] k = "offset" -> JNum(f.Offset)
          [] k = "limit" -> JNum(f.Limit)
          [] k = "start_date" -> JStr(f.StartDate)
          [] k = "end_date" -> JStr(f.EndDate)
          [] k = "debit_as_negative" -> JBool(f.DebitAsNegative)]

UnmarshalTypeError(what) ==
    NewErr("json: cannot unmarshal " \o what \o " into Go value of type string")

JTypeName(jv) ==
    CASE jv.t = "num" -> "number" [] jv.t = "bool" -> "bool"
      [] jv.t = "arr" -> "array" [] jv.t = "obj" -> "object"
      [] OTHER -> jv.t

\* json.Unmarshal of an object (keys in the order keys) into a
\* map[string]string: a string value is stored, null stores nothing new, and
\* any other value is a type error; the first such error is returned once the
\* whole object has been read
UnmarshalStringMap(keys, obj) ==
    LET bad == {i \in 1..Len(keys) : obj[keys[i]].t \notin {"str", "null"}}
        first == CHOOSE i \in bad : \A j \in bad : i <= j
        strs == {keys[i] : i \in {j \in 1..Len(keys) : obj[keys[j]].t = "str"}}
    IN  [ret |-> [k \in strs |-> obj[k].v],
         err |-> IF bad = {} THEN NoErr
                 ELSE UnmarshalTypeError(JTypeName(obj[keys[first]]))]

\* TransactionFilters.ToMap
ToMap(f) ==
    LET u == UnmarshalStringMap(FilterKeys, MarshalFilters(f))
    IN  IF u.err # NoErr THEN [ret |-> NilResult, err |-> u.err]
        ELSE [ret |-> MapResult(u.ret), err |-> NoErr]

(***************************************************************************)
(* The HTTP transport (Client.Get, Client.Put).  What the server does is   *)
(* the environment's choice: the connection fails, or an HTTP response     *)
(* with a status and a body arrives.  The transport returns an error for a *)
(* failed connection and for a status outside 2xx, else the body.          *)
(***************************************************************************)
OkStatuses == {200, 201}
ErrStatuses == {400, 401}

ConnFail == [kind |-> "connfail"]
HTTPResponse(status, body) == [kind |-> "http", status |-> status, body |-> body]

\* a body that is not a complete JSON document
Truncated == [wf |-> FALSE]
Document(obj) == [wf |-> TRUE, doc |-> obj]

ErrorBody == Document("error" :> JStr("Unauthorized"))

Outcomes(bodies) ==
    {ConnFail}
    \cup {HTTPResponse(s, ErrorBody) : s \in ErrStatuses}
    \cup {HTTPResponse(s, b) : s \in OkStatuses, b \in bodies}

TransportFails(srv) ==
    srv.kind = "connfail" \/ (srv.kind = "http" /\ srv.status \notin 200..299)

TransportError(srv) ==
    IF srv.kind = "connfail" THEN NewErr("request failed: connection refused")
    ELSE NewErr("HTTP " \o FmtInt(srv.status))

Get(path, options, srv) ==
    [request |-> [method |-> "GET", path |-> path, query |-> options],
     body |-> IF TransportFails(srv) THEN Truncated ELSE srv.body,
     err |-> IF TransportFails(srv) THEN TransportError(srv) ELSE NoErr]

Put(path, jsonBody, srv) ==
    [request |-> [method |-> "PUT", path |-> path, body |-> jsonBody],
     body |-> IF TransportFails(srv) THEN Truncated ELSE srv.body,
     err |-> IF TransportFails(srv) THEN TransportError(srv) ELSE NoErr]

(***************************************************************************)
(* encoding/json decoding into the typed structs.  A struct is described   *)
(* by its fields in declaration order: <<JSON key, kind of the Go field>>. *)
(* A decoded struct is the function from its JSON keys to the Go values.   *)
(* null, and a missing key, leave the field at its zero value: nil for a   *)
(* pointer or a slice, 0, "" or false for a plain field.                   *)
(***************************************************************************)
ZeroTime == "0001-01-01T00:00:00Z"
Timestamps == {"2021-05-21T00:05:36.000Z", "2020-07-27T11:53:02.722Z"}

NilSlice == NilResult
Slice(items) == ListResult(items)

ZeroOf(kind) ==
    CASE kind \in {"optint", "optstr", "optnum"} -> NilPtr
      [] kind = "int" -> 0
      [] kind = "str" -> ""
      [] kind = "chars" -> <<>>
      [] kind = "bool" -> FALSE
      [] kind = "time" -> ZeroTime
      [] kind = "ints" -> NilSlice

\* the JSON type a field kind accepts
Accepts(kind, jv) ==
    CASE kind \in {"optint", "optnum", "int"} -> jv.t = "num"
      [] kind \in {"optstr", "str", "chars"} -> jv.t = "str"
      [] kind = "bool" -> jv.t = "bool"
      [] kind = "time" -> jv.t = "str" /\ jv.v \in Timestamps
      [] kind = "ints" -> jv.t = "arr" /\ \A i \in 1..Len(jv.v) : jv.v[i].t = "num"

Stored(kind, jv) ==
    CASE kind \in {"optint", "optstr", "optnum"} -> Ptr(jv.v)
      [] kind = "ints" -> Slice([i \in 1..Len(jv.v) |-> jv.v[i].v])
      [] OTHER -> jv.v

DecodeField(kind, jv) ==
    IF jv.t = "null" THEN [ok |-> TRUE, v |-> ZeroOf(kind)]
    ELSE IF Accepts(kind, jv) THEN [ok |-> TRUE, v |-> Stored(kind, jv)]
    ELSE [ok |-> FALSE, v |-> ZeroOf(kind)]

SchemaKeys(schema) == {schema[i][1] : i \in 1..Len(schema)}
KindOf(schema, k) == schema[CHOOSE i \in 1..Len(schema) : schema[i][1] = k][2]

DecodeTypeError(k) ==
    NewErr("json: cannot unmarshal value into Go struct field " \o k)

\* decoding a JSON object into a struct: unknown keys are ignored, the first
\* field of the wrong type is the error
DecodeObject(schema, obj) ==
    LET f == [k \in SchemaKeys(schema) |->
                 DecodeField(KindOf(schema, k), Lookup(obj, k))]
        bad == {i \in 1..Len(schema) : ~f[schema[i][1]].ok}
        first == CHOOSE i \in bad : \A j \in bad : i <= j
    IN  [rec |-> [k \in SchemaKeys(schema) |-> f[k].v],
         err |-> IF bad = {} THEN NoErr ELSE DecodeTypeError(schema[first][1])]

\* an empty array decoded to a nil slice
DecodeSlice_EmptyIsNil(schema, jv) ==
    IF jv.t = "null" \/ (jv.t = "arr" /\ jv.v = <<>>)
    THEN [slice |-> NilSlice, err |-> NoErr]
    ELSE IF jv.t # "arr" THEN [slice |-> NilSlice, err |-> DecodeTypeError("[]")]
    ELSE LET d == [i \in 1..Len(jv.v) |-> DecodeObject(schema, jv.v[i])]
             bad == {i \in 1..Len(jv.v) : d[i].err # NoErr}
             first == CHOOSE i \in bad : \A j \in bad : i <= j
         IN  [slice |-> Slice([i \in 1..Len(jv.v) |-> d[i].rec]),
              err |-> IF bad = {} THEN NoErr ELSE d[first].err]

\* decoding a JSON array of objects into a slice of pointers to structs
DecodeSlice(schema, jv) ==
    IF jv.t = "null" THEN [slice |-> NilSlice, err |-> NoErr]
    ELSE IF jv.t # "arr" THEN [slice |-> NilSlice, err |-> DecodeTypeError("[]")]
    ELSE LET d == [i \in 1..Len(jv.v) |-> DecodeObject(schema, jv.v[i])]
             bad == {i \in 1..Len(jv.v) : d[i].err # NoErr}
             first == CHOOSE i \in bad : \A j \in bad : i <= j
         IN  [slice |-> Slice([i \in 1..Len(jv.v) |-> d[i].rec]),
              err |-> IF bad = {} THEN NoErr ELSE d[first].err]

UnexpectedEOF == NewErr("unexpected EOF")

\* --- Crypto --------------------------------------------------------------
CryptoSchema ==
    << <<"id", "optint">>, <<"zabo_account_id", "optint">>, <<"source", "str">>,
       <<"name", "str">>, <<"display_name", "optstr">>, <<"balance", "str">>,
       <<"balance_as_of", "time">>, <<"currency", "str">>, <<"status", "str">>,
       <<"institution_name", "optstr">>, <<"created_at", "time">>,
       <<"to_base", "optnum">> >>

\* json.NewDecoder(body).Decode(&CryptoResponse{})
DecodeCryptoResponse(body) ==
    IF ~body.wf THEN [resp |-> [crypto |-> NilSlice], err |-> UnexpectedEOF]
    ELSE LET s == DecodeSlice(CryptoSchema, Lookup(body.doc, "crypto"))
         IN  [resp |-> [crypto |-> s.slice], err |-> s.err]

\* json.NewDecoder(body).Decode(&Crypto{})
DecodeCrypto(body) ==
    IF ~body.wf THEN [resp |-> DecodeObject(CryptoSchema, EmptyMap).rec,
                      err |-> UnexpectedEOF]
    ELSE LET d == DecodeObject(CryptoSchema, body.doc)
         IN  [resp |-> d.rec, err |-> d.err]

\* validate.Struct(&CryptoResponse{...}): the only field is an untagged slice
ValidateCryptoResponse(resp) == NoErr

\* the JSON objects a server sends for a crypto asset
CryptoObjects ==
    {[k \in SchemaKeys(CryptoSchema) |->
        CASE k = "id" -> i
          [] k = "zabo_account_id" -> JNull
          [] k = "source" -> JStr("manual")
          [] k = "name" -> JStr("Ether")
          [] k = "display_name" -> d
          [] k = "balance" -> JStr("5.39")
          [] k = "balance_as_of" -> JStr("2021-05-21T00:05:36.000Z")
          [] k = "currency" -> JStr("ETH")
          [] k = "status" -> JStr("active")
          [] k = "institution_name" -> JNull
          [] k = "created_at" -> JStr("2020-07-27T11:53:02.722Z")
          [] k = "to_base" -> b] :
      i \in {JNull, JNum(0), JNum(152)},
      d \in {JNull, JStr(""), JStr("BlockFi")},
      b \in {JNull, JNum(0)}}

\* an object whose id has the wrong JSON type
CryptoMistyped ==
    [k \in {"id", "name"} |-> IF k = "id" THEN JStr("abc") ELSE JStr("Ether")]

RECURSIVE SeqsUpTo(_, _)
SeqsUpTo(S, n) ==
    IF n = 0 THEN {<<>>}
    ELSE LET shorter == SeqsUpTo(S, n - 1)
         IN  shorter \cup {Append(s, x) : s \in {t \in shorter : Len(t) = n - 1}, x \in S}

CryptoListBodies ==
    {Truncated, Document(EmptyMap), Document("crypto" :> JNull)}
    \cup {Document("crypto" :> JArr(s)) :
            s \in SeqsUpTo(CryptoObjects \cup {CryptoMistyped}, MaxLen)}

CryptoBodies ==
    {Truncated} \cup {Document(o) : o \in CryptoObjects \cup {CryptoMistyped}}

\* no request was issued, so no response was seen
NoResponse == [kind |-> "none"]

\* what a call hands back
Out(resp, reqs, stps, res, e) ==
    [response |-> resp, requests |-> reqs, steps |-> stps, result |-> res, err |-> e]

\* the transport error handed on without the operation's prefix
GetCrypto_Unwrapped(srv) ==
    LET g == Get("/v1/crypto", EmptyMap, srv)
        d == DecodeCryptoResponse(g.body)
    IN  IF g.err # NoErr
        THEN Out(srv, <<g.request>>, <<"get">>, NilResult, g.err)
        ELSE IF d.err # NoErr
        THEN Out(srv, <<g.request>>, <<"get", "decode">>, NilResult,
                 Wrap("decode response", d.err))
        ELSE Out(srv, <<g.request>>, <<"get", "decode", "validate response">>,
                 d.resp.crypto, NoErr)

\* Client.GetCrypto, given what the server does
GetCrypto(srv) ==
    LET g == Get("/v1/crypto", EmptyMap, srv)
        d == DecodeCryptoResponse(g.body)
        v == ValidateCryptoResponse(d.resp)
    IN  IF g.err # NoErr
        THEN Out(srv, <<g.request>>, <<"get">>, NilResult, Wrap("get crypto", g.err))
        ELSE IF d.err # NoErr
        THEN Out(srv, <<g.request>>, <<"get", "decode">>, NilResult,
                 Wrap("decode response", d.err))
        ELSE IF v # NoErr
        THEN Out(srv, <<g.request>>, <<"get", "decode", "validate response">>,
                 NilResult, v)
        ELSE Out(srv, <<g.request>>, <<"get", "decode", "validate response">>,
                 d.resp.crypto, NoErr)

(***************************************************************************)
(* Transactions: reads.                                                    *)
(***************************************************************************)
TransactionSchema ==
    << <<"id", "int">>, <<"date", "chars">>, <<"payee", "str">>,
       <<"amount", "str">>, <<"currency", "str">>, <<"notes", "str">>,
       <<"category_id", "int">>, <<"recurring_id", "int">>, <<"asset_id", "int">>,
       <<"plaid_account_id", "int">>, <<"status", "str">>, <<"is_group", "bool">>,
       <<"group_id", "int">>, <<"parent_id", "int">>, <<"external_id", "int">> >>

\* json.NewDecoder(body).Decode(&TransactionsResponse{})
DecodeTransactionsResponse(body) ==
    IF ~body.wf THEN [resp |-> [transactions |-> NilSlice], err |-> UnexpectedEOF]
    ELSE LET s == DecodeSlice(TransactionSchema, Lookup(body.doc, "transactions"))
         IN  [resp |-> [transactions |-> s.slice], err |-> s.err]

\* json.NewDecoder(body).Decode(&Transaction{})
DecodeTransaction(body) ==
    IF ~body.wf THEN [resp |-> DecodeObject(TransactionSchema, EmptyMap).rec,
                      err |-> UnexpectedEOF]
    ELSE LET d == DecodeObject(TransactionSchema, body.doc)
         IN  [resp |-> d.rec, err |-> d.err]

\* validate.Struct(&Transaction{...}): the rule of the Date field
ValidateTransaction(t) ==
    ValidationErrors(
        IF OmitemptyDatetime(t["date"]) THEN <<>>
        ELSE <<FieldError("Transaction", "Date", "datetime")>>)

\* validate.Struct(&TransactionsResponse{...}): the only field is a slice
\* without a tag, so its elements are not visited
ValidateTransactionsResponse(resp) == NoErr

\* the JSON objects a server sends for a transaction
TransactionObjects ==
    {[k \in SchemaKeys(TransactionSchema) |->
        CASE k = "id" -> JNum(7)
          [] k = "date" -> d
          [] k = "payee" -> JStr("Shop")
          [] k = "amount" -> JStr("12.50")
          [] k = "currency" -> JStr("usd")
          [] k = "notes" -> JStr("")
          [] k = "category_id" -> c
          [] k = "recurring_id" -> JNull
          [] k = "asset_id" -> JNull
          [] k = "plaid_account_id" -> JNum(3)
          [] k = "status" -> JStr("cleared")
          [] k = "is_group" -> JBool(FALSE)
          [] k = "group_id" -> JNull
          [] k = "parent_id" -> q
          [] k = "external_id" -> JNull] :
      d \in {JNull} \cup {JStr(x) : x \in {DateEmpty, DateGood, DateSlash}},
      c \in {JNull, JNum(0)},
      q \in {JNull, JNum(0)}}

\* an object whose id has the wrong JSON type
TransactionMistyped ==
    [k \in {"id", "payee"} |-> IF k = "id" THEN JStr("abc") ELSE JStr("Shop")]

TransactionListBodies ==
    {Truncated, Document(EmptyMap), Document("transactions" :> JNull)}
    \cup {Document("transactions" :> JArr(s)) :
            s \in SeqsUpTo(TransactionObjects \cup {TransactionMistyped}, MaxLen)}

TransactionBodies ==
    {Truncated} \cup {Document(o) : o \in TransactionObjects \cup {TransactionMistyped}}

\* the filters argument of a read: nil or a pointer to a filter
FilterArgs == {NilPtr} \cup {Ptr(f) : f \in TransactionFilters}

\* Client.GetTransactions up to the transport call: the query parameters
GetTransactionsOptions(filters) ==
    IF filters = NilPtr
    THEN [options |-> EmptyMap, steps |-> <<>>, err |-> NoErr]
    ELSE LET v == ValidateFilters(filters[1])
             m == ToMap(filters[1])
         IN  IF v # NoErr
             THEN [options |-> EmptyMap, steps |-> <<"validate input">>, err |-> v]
             ELSE IF m.err # NoErr
             THEN [options |-> EmptyMap, steps |-> <<"validate input", "encode">>,
                   err |-> Wrap("convert filters to map", m.err)]
             ELSE [options |-> m.ret.map, steps |-> <<"validate input", "encode">>,
                   err |-> NoErr]

\* Client.GetTransactions from the transport call on
GetTransactionsFetch(pre, srv) ==
    LET g == Get("/v1/transactions", pre.options, srv)
        d == DecodeTransactionsResponse(g.body)
        v == ValidateTransactionsResponse(d.resp)
    IN  IF g.err # NoErr
        THEN Out(srv, <<g.request>>, pre.steps \o <<"get">>, NilResult,
                 Wrap("get transactions", g.err))
        ELSE IF d.err # NoErr
        THEN Out(srv, <<g.request>>, pre.steps \o <<"get", "decode">>, NilResult,
                 Wrap("decode response", d.err))
        ELSE IF v # NoErr
        THEN Out(srv, <<g.request>>,
                 pre.steps \o <<"get", "decode", "validate response">>, NilResult, v)
        ELSE Out(srv, <<g.request>>,
                 pre.steps \o <<"get", "decode", "validate response">>,
                 d.resp.transactions, NoErr)

\* Client.GetTransaction up to the transport call
GetTransactionOptions(filters) ==
    IF filters = NilPtr
    THEN [options |-> EmptyMap, steps |-> <<>>, err |-> NoErr]
    ELSE LET v == ValidateFilters(filters[1])
             m == ToMap(filters[1])
         IN  IF v # NoErr
             THEN [options |-> EmptyMap, steps |-> <<"validate input">>, err |-> v]
             ELSE IF m.err # NoErr
             THEN [options |-> EmptyMap, steps |-> <<"validate input", "encode">>,
                   err |-> m.err]
             ELSE [options |-> m.ret.map, steps |-> <<"validate input", "encode">>,
                   err |-> NoErr]

\* the half-decoded record returned together with the decode error
GetTransactionFetch_Partial(id, pre, srv) ==
    LET g == Get("/v1/transactions/" \o FmtInt(id), pre.options, srv)
        d == DecodeTransaction(g.body)
        v == ValidateTransaction(d.resp)
    IN  IF g.err # NoErr
        THEN Out(srv, <<g.request>>, pre.steps \o <<"get">>, NilResult,
                 Wrap("get transaction " \o FmtInt(id), g.err))
        ELSE IF d.err # NoErr
        THEN Out(srv, <<g.request>>, pre.steps \o <<"get", "decode">>,
                 RecordResult(d.resp), Wrap("decode response", d.err))
        ELSE IF v # NoErr
        THEN Out(srv, <<g.request>>,
                 pre.steps \o <<"get", "decode", "validate response">>, NilResult, v)
        ELSE Out(srv, <<g.request>>,
                 pre.steps \o <<"get", "decode", "validate response">>,
                 RecordResult(d.resp), NoErr)

\* Client.GetTransaction from the transport call on
GetTransactionFetch(id, pre, srv) ==
    LET g == Get("/v1/transactions/" \o FmtInt(id), pre.options, srv)
        d == DecodeTransaction(g.body)
        v == ValidateTransaction(d.resp)
    IN  IF g.err # NoErr
        THEN Out(srv, <<g.request>>, pre.steps \o <<"get">>, NilResult,
                 Wrap("get transaction " \o FmtInt(id), g.err))
        ELSE IF d.err # NoErr
        THEN Out(srv, <<g.request>>, pre.steps \o <<"get", "decode">>, NilResult,
                 Wrap("decode response", d.err))
        ELSE IF v # NoErr
        THEN Out(srv, <<g.request>>,
                 pre.steps \o <<"get", "decode", "validate response">>, NilResult, v)
        ELSE Out(srv, <<g.request>>,
                 pre.steps \o <<"get", "decode", "validate response">>,
                 RecordResult(d.resp), NoErr)

\* a call that returned before the transport was reached
Early(pre) == Out(NoResponse, <<>>, pre.steps, NilResult, pre.err)

(***************************************************************************)
(* Updates.  An update payload is a struct of pointers; its fields are     *)
(* <<Go field, JSON key, kind of the value pointed at>> in declaration     *)
(* order, every one tagged omitempty, which for a pointer leaves out       *)
(* exactly the nil ones.                                                   *)
(***************************************************************************)
OmitEmpty(p) == p = NilPtr

\* omitempty read as "leave out the zero values pointed at as well"
MarshalPtrFields_DropZero(fields, payload) ==
    LET isZero(kind, v) ==
            CASE kind = "int" -> v = 0 [] kind = "str" -> v = "" [] kind = "chars" -> v = <<>>
        present == {i \in 1..Len(fields) :
                       /\ payload[fields[i][1]] # NilPtr
                       /\ ~isZero(fields[i][3], payload[fields[i][1]][1])}
        idx(k) == CHOOSE i \in 1..Len(fields) : fields[i][2] = k
    IN  [k \in {fields[i][2] : i \in present} |->
            IF fields[idx(k)][3] = "int"
            THEN JNum(payload[fields[idx(k)][1]][1])
            ELSE JStr(payload[fields[idx(k)][1]][1])]

MarshalPtrFields(fields, payload) ==
    LET present == {i \in 1..Len(fields) : ~OmitEmpty(payload[fields[i][1]])}
        idx(k) == CHOOSE i \in 1..Len(fields) : fields[i][2] = k
    IN  [k \in {fields[i][2] : i \in present} |->
            IF fields[idx(k)][3] = "int"
            THEN JNum(payload[fields[idx(k)][1]][1])
            ELSE JStr(payload[fields[idx(k)][1]][1])]

\* --- UpdateManualCrypto ---------------------------------------------------
UpdateCryptoFields ==
    << <<"Name", "name", "str">>, <<"DisplayName", "display_name", "str">>,
       <<"InstitutionName", "institution_name", "str">>,
       <<"Balance", "balance", "str">>, <<"Currency", "currency", "str">> >>

OptNames == {NilPtr, Ptr(""), Ptr("Ethereum")}

UpdateCrypto ==
    [Name : OptNames, DisplayName : OptNames,
     InstitutionName : {NilPtr, Ptr("BlockFi")},
     Balance : {NilPtr, Ptr("10.0")}, Currency : {NilPtr, Ptr("")}]

UpdateCryptoArgs == {NilPtr} \cup {Ptr(u) : u \in UpdateCrypto}

\* validate.Struct(crypto): UpdateCrypto declares no rule; a nil pointer is
\* not a struct
ValidateUpdateCrypto(crypto) ==
    IF crypto = NilPtr THEN InvalidValidationError ELSE NoErr

\* json.Marshal of the *UpdateCrypto handed to Put
MarshalUpdateCrypto(crypto) ==
    IF crypto = NilPtr THEN JNull
    ELSE JObj(MarshalPtrFields(UpdateCryptoFields, crypto[1]))

\* Client.UpdateManualCrypto up to the transport call
UpdateManualCryptoCheck(crypto) ==
    [steps |-> <<"validate input">>, err |-> ValidateUpdateCrypto(crypto)]

\* Client.UpdateManualCrypto from the transport call on
UpdateManualCryptoSend(id, crypto, pre, srv) ==
    LET g == Put("/v1/crypto/manual/" \o FmtInt(id), MarshalUpdateCrypto(crypto), srv)
        d == DecodeCrypto(g.body)
    IN  IF g.err # NoErr
        THEN Out(srv, <<g.request>>, pre.steps \o <<"put">>, NilResult,
                 Wrap("put crypto " \o FmtInt(id), g.err))
        ELSE IF d.err # NoErr
        THEN Out(srv, <<g.request>>, pre.steps \o <<"put", "decode">>, NilResult,
                 Wrap("decode response", d.err))
        ELSE Out(srv, <<g.request>>, pre.steps \o <<"put", "decode">>,
                 RecordResult(d.resp), NoErr)

\* --- UpdateTransaction ----------------------------------------------------
UpdateTransactionFields ==
    << <<"Date", "date", "chars">>, <<"CategoryID", "category_id", "int">>,
       <<"Payee", "payee", "str">>, <<"Currency", "currency", "str">>,
       <<"AssetID", "asset_id", "int">>, <<"RecurringID", "recurring_id", "int">>,
       <<"Notes", "notes", "str">>, <<"Status", "status", "str">>,
       <<"ExternalID", "external_id", "str">> >>

UpdateTransaction ==
    [Date : {NilPtr} \cup {Ptr(x) : x \in DateStrings},
     CategoryID : {NilPtr, Ptr(0)},
     Payee : {NilPtr, Ptr(""), Ptr("Shop")},
     Currency : {NilPtr, Ptr("usd")},
     AssetID : {NilPtr, Ptr(9)},
     RecurringID : {NilPtr},
     Notes : {NilPtr, Ptr("")},
     Status : {NilPtr, Ptr("cleared"), Ptr("uncleared"), Ptr("pending"), Ptr("")},
     ExternalID : {NilPtr}]

UpdateTransactionArgs == {NilPtr} \cup {Ptr(u) : u \in UpdateTransaction}

\* the Status rule left out
ValidateUpdateTransaction_DateOnly(ut) ==
    IF ut = NilPtr THEN InvalidValidationError
    ELSE ValidationErrors(
            IF OmitnilDatetime(ut[1].Date) THEN <<>>
            ELSE <<FieldError("UpdateTransaction", "Date", "datetime")>>)

\* validate.Struct(ut): the rules of Date and Status
ValidateUpdateTransaction(ut) ==
    IF ut = NilPtr THEN InvalidValidationError
    ELSE ValidationErrors(
            (IF OmitnilDatetime(ut[1].Date) THEN <<>>
             ELSE <<FieldError("UpdateTransaction", "Date", "datetime")>>)
            \o
            (IF OmitnilOneofStatus(ut[1].Status) THEN <<>>
             ELSE <<FieldError("UpdateTransaction", "Status", "oneof")>>))

\* json.Marshal of &UpdateRequest{Transaction: ut}
MarshalUpdateRequest(ut) ==
    JObj("transaction" :>
            (IF ut = NilPtr THEN JNull
             ELSE JObj(MarshalPtrFields(UpdateTransactionFields, ut[1]))))

UpdateTransactionRespSchema == << <<"updated", "bool">>, <<"split", "ints">> >>

\* json.NewDecoder(body).Decode(&UpdateTransactionResp{})
DecodeUpdateTransactionResp(body) ==
    IF ~body.wf THEN [resp |-> DecodeObject(UpdateTransactionRespSchema, EmptyMap).rec,
                      err |-> UnexpectedEOF]
    ELSE LET d == DecodeObject(UpdateTransactionRespSchema, body.doc)
         IN  [resp |-> d.rec, err |-> d.err]

UpdateRespBodies ==
    {Truncated, Document(EmptyMap), Document("updated" :> JStr("yes"))}
    \cup {Document([k \in {"updated", "split"} |->
                       IF k = "updated" THEN JBool(u) ELSE sp]) :
            u \in BOOLEAN,
            sp \in {JNull, JArr(<<>>), JArr(<<JNum(11), JNum(12)>>)}}

\* the payload sent without having been validated
UpdateTransactionCheck_NoValidation(ut) ==
    [steps |-> <<>>, err |-> NoErr]

\* Client.UpdateTransaction up to the transport call
UpdateTransactionCheck(ut) ==
    [steps |-> <<"validate input">>, err |-> ValidateUpdateTransaction(ut)]

\* Client.UpdateTransaction from the transport call on
UpdateTransactionSend(id, ut, pre, srv) ==
    LET g == Put("/v1/transactions/" \o FmtInt(id), MarshalUpdateRequest(ut), srv)
        d == DecodeUpdateTransactionResp(g.body)
    IN  IF g.err # NoErr
        THEN Out(srv, <<g.request>>, pre.steps \o <<"put">>, NilResult,
                 Wrap("update transaction " \o FmtInt(id), g.err))
        ELSE IF d.err # NoErr
        THEN Out(srv, <<g.request>>, pre.steps \o <<"put", "decode">>, NilResult,
                 Wrap("decode response", d.err))
        ELSE Out(srv, <<g.request>>, pre.steps \o <<"put", "decode">>,
                 RecordResult(d.resp), NoErr)

(***************************************************************************)
(* The state of the client's last call.                                    *)
(***************************************************************************)
NoArgs == [id |-> 0, in |-> NilPtr]

Init ==
    /\ op = "none"
    /\ args = NoArgs
    /\ response = NoResponse
    /\ requests = <<>>
    /\ steps = <<>>
    /\ result = NilResult
    /\ err = NoErr

\* a call's outcome written to the state
Returns(name, a, out) ==
    /\ op' = name
    /\ args' = a
    /\ response' = out.response
    /\ requests' = out.requests
    /\ steps' = out.steps
    /\ result' = out.result
    /\ err' = out.err

Idle == op = "none"

ToMapCall ==
    /\ Idle
    /\ \E f \in TransactionFilters :
         LET m == ToMap(f)
         IN Returns("ToMap", [id |-> 0, in |-> Ptr(f)],
                    [response |-> NoResponse, requests |-> <<>>,
                     steps |-> <<"encode">>, result |-> m.ret, err |-> m.err])

GetCryptoCall ==
    /\ Idle
    /\ \E srv \in Outcomes(CryptoListBodies) :
         Returns("GetCrypto", NoArgs, GetCrypto(srv))

GetTransactionsCall ==
    /\ Idle
    /\ \E filters \in FilterArgs :
         LET pre == GetTransactionsOptions(filters)
             a == [id |-> 0, in |-> filters]
         IN  IF pre.err # NoErr
             THEN Returns("GetTransactions", a, Early(pre))
             ELSE \E srv \in Outcomes(TransactionListBodies) :
                     Returns("GetTransactions", a, GetTransactionsFetch(pre, srv))

GetTransactionCall ==
    /\ Idle
    /\ \E id \in Ids, filters \in FilterArgs :
         LET pre == GetTransactionOptions(filters)
             a == [id |-> id, in |-> filters]
         IN  IF pre.err # NoErr
             THEN Returns("GetTransaction", a, Early(pre))
             ELSE \E srv \in Outcomes(TransactionBodies) :
                     Returns("GetTransaction", a, GetTransactionFetch(id, pre, srv))

UpdateManualCryptoCall ==
    /\ Idle
    /\ \E id \in Ids, crypto \in UpdateCryptoArgs :
         LET pre == UpdateManualCryptoCheck(crypto)
             a == [id |-> id, in |-> crypto]
         IN  IF pre.err # NoErr
             THEN Returns("UpdateManualCrypto", a, Early(pre))
             ELSE \E srv \in Outcomes(CryptoBodies) :
                     Returns("UpdateManualCrypto", a,
                             UpdateManualCryptoSend(id, crypto, pre, srv))

UpdateTransactionCall ==
    /\ Idle
    /\ \E id \in Ids, ut \in UpdateTransactionArgs :
         LET pre == UpdateTransactionCheck(ut)
             a == [id |-> id, in |-> ut]
         IN  IF pre.err # NoErr
             THEN Returns("UpdateTransaction", a, Early(pre))
             ELSE \E srv \in Outcomes(UpdateRespBodies) :
                     Returns("UpdateTransaction", a,
                             UpdateTransactionSend(id, ut, pre, srv))

Next ==
    \/ ToMapCall
    \/ GetCryptoCall
    \/ GetTransactionsCall
    \/ GetTransactionCall
    \/ UpdateManualCryptoCall
    \/ UpdateTransactionCall

Spec == Init /\ [][Next]_vars

(***************************************************************************)
(* Properties of a call.                                                   *)
(***************************************************************************)
Reads == {"GetCrypto", "GetTransactions", "GetTransaction"}
Updates == {"UpdateManualCrypto", "UpdateTransaction"}
FilterReads == {"GetTransactions", "GetTransaction"}

ResponseOK == response.kind = "http" /\ response.status \in 200..299
ResponseFailed ==
    \/ response.kind = "connfail"
    \/ response.kind = "http" /\ response.status \notin 200..299

\* the shape YYYY-MM-DD: digits and dashes in their places
MatchesYMD(s) ==
    /\ Len(s) = 10
    /\ \A i \in 1..10 : IF i \in {5, 8} THEN s[i] = "-" ELSE s[i] \in DigitChars

BadFilter(f) ==
    \/ f.StartDate # DateEmpty /\ ~MatchesYMD(f.StartDate)
    \/ f.EndDate # DateEmpty /\ ~MatchesYMD(f.EndDate)

BadUpdate(u) ==
    \/ u.Date # NilPtr /\ ~MatchesYMD(u.Date[1])
    \/ u.Status # NilPtr /\ u.Status[1] \notin {"cleared", "uncleared"}

ViolatesDeclaredRule ==
    \/ op \in FilterReads /\ args.in # NilPtr /\ BadFilter(args.in[1])
    \/ op = "UpdateTransaction" /\ args.in # NilPtr /\ BadUpdate(args.in[1])

\* C1: a call whose filter or payload breaks a declared rule (a date that is
\* present and not of the shape YYYY-MM-DD, a status that is present and is
\* neither cleared nor uncleared) returns an error and a nil result, and has
\* issued no HTTP request.
C1_InvalidInputNoRequest ==
    ViolatesDeclaredRule =>
        /\ err # NoErr
        /\ result = NilResult
        /\ requests = <<>>

C1_Witness ==
    /\ op = "UpdateTransaction"
    /\ args.in # NilPtr
    /\ args.in[1].Date = Ptr(DateSlash)
    /\ args.in[1].Status = NilPtr
    /\ err # NoErr
    /\ requests = <<>>

\* the mapping the filter encoder is specified to produce: one entry per
\* non-zero field, integers in base 10, the flag as "true", dates as given
CanonicalEncoding(f) ==
    LET set == {k \in {FilterKeys[i] : i \in 1..Len(FilterKeys)} :
                   CASE k = "tag_id" -> f.TagID # 0
                     [] k = "recurring_id" -> f.RecurringID # 0
                     [] k = "plaid_account_id" -> f.PlaidAccountID # 0
                     [] k = "category_id" -> f.CategoryID # 0
                     [] k = "asset_id" -> f.AssetID # 0
                     [] k = "offset" -> f.Offset # 0
                     [] k = "limit" -> f.Limit # 0
                     [] k = "start_date" -> f.StartDate # DateEmpty
                     [] k = "end_date" -> f.EndDate # DateEmpty
                     [] k = "debit_as_negative" -> f.DebitAsNegative}
    IN  [k \in set |->
            CASE k = "tag_id" -> ToString(f.TagID)
              [] k = "recurring_id" -> ToString(f.RecurringID)
              [] k = "plaid_account_id" -> ToString(f.PlaidAccountID)
              [] k = "category_id" -> ToString(f.CategoryID)
              [] k = "asset_id" -> ToString(f.AssetID)
              [] k = "offset" -> ToString(f.Offset)
              [] k = "limit" -> ToString(f.Limit)
              [] k = "start_date" -> f.StartDate
              [] k = "end_date" -> f.EndDate
              [] k = "debit_as_negative" -> "true"]

\* C2: ToMap succeeds on every filter and returns exactly one entry per
\* non-zero field, in canonical string form (the empty mapping for the
\* all-zero filter).
C2_ToMapEncodes ==
    op = "ToMap" =>
        /\ err = NoErr
        /\ result = MapResult(CanonicalEncoding(args.in[1]))

\* C3: a read called with a non-nil filter that passes validation issues
\* exactly one GET request carrying the encoded filter, after validation and
\* encoding and before decoding, and returns no error before the request.
C3_ValidFilterReachesTransport ==
    (/\ op \in FilterReads
     /\ args.in # NilPtr
     /\ ValidateFilters(args.in[1]) = NoErr) =>
        /\ Len(requests) = 1
        /\ requests[1].method = "GET"
        /\ requests[1].query = CanonicalEncoding(args.in[1])
        /\ Len(steps) >= 3
        /\ steps[1] = "validate input" /\ steps[2] = "encode" /\ steps[3] = "get"

OpPrefix ==
    CASE op = "GetCrypto" -> "get crypto"
      [] op = "UpdateManualCrypto" -> "put crypto " \o ToString(args.id)
      [] op = "GetTransactions" -> "get transactions"
      [] op = "GetTransaction" -> "get transaction " \o ToString(args.id)
      [] op = "UpdateTransaction" -> "update transaction " \o ToString(args.id)
      [] OTHER -> ""

UnderlyingError ==
    IF response.kind = "connfail" THEN <<"request failed: connection refused">>
    ELSE <<"HTTP " \o ToString(response.status)>>

\* C4: when the transport call fails or the server answers outside 2xx, the
\* method returns a nil result and an error that starts with the operation's
\* prefix and wraps the transport's error; no call issues more than one
\* request.
C4_TransportFailureWrapped ==
    /\ Len(requests) <= 1
    /\ ResponseFailed =>
          /\ result = NilResult
          /\ Len(requests) = 1
          /\ err # NoErr
          /\ Head(err) = OpPrefix
          /\ Tail(err) = UnderlyingError

C4_Witness ==
    /\ op = "GetCrypto"
    /\ response.kind = "http"
    /\ response.status = 401
    /\ err = <<"get crypto", "HTTP 401">>
    /\ result = NilResult

\* the error of decoding the body for the envelope the operation expects
BodyDecodeError ==
    CASE op = "GetCrypto" -> DecodeCryptoResponse(response.body).err
      [] op = "UpdateManualCrypto" -> DecodeCrypto(response.body).err
      [] op = "GetTransactions" -> DecodeTransactionsResponse(response.body).err
      [] op = "GetTransaction" -> DecodeTransaction(response.body).err
      [] op = "UpdateTransaction" -> DecodeUpdateTransactionResp(response.body).err

\* C5: when the transport succeeds and the body does not decode into the
\* expected envelope, the method returns a nil result and an error that
\* starts with "decode response" and wraps the decoder's error.
C5_DecodeFailureWrapped ==
    (ResponseOK /\ BodyDecodeError # NoErr) =>
        /\ result = NilResult
        /\ err # NoErr
        /\ Head(err) = "decode response"
        /\ Tail(err) = BodyDecodeError

C5_Witness ==
    /\ op = "GetTransaction"
    /\ ResponseOK
    /\ response.body = Document(TransactionMistyped)
    /\ Head(err) = "decode response"
    /\ result = NilResult

\* the array of a list envelope, and the struct its elements decode into
EnvelopeKey == IF op = "GetCrypto" THEN "crypto" ELSE "transactions"
EnvelopeSchema == IF op = "GetCrypto" THEN CryptoSchema ELSE TransactionSchema

WellFormedEnvelope ==
    /\ ResponseOK
    /\ response.body.wf
    /\ EnvelopeKey \in DOMAIN response.body.doc
    /\ response.body.doc[EnvelopeKey].t = "arr"
    /\ \A i \in 1..Len(response.body.doc[EnvelopeKey].v) :
          DecodeObject(EnvelopeSchema, response.body.doc[EnvelopeKey].v[i]).err = NoErr

\* C6: GetCrypto, and GetTransactions with a nil filter, answered 2xx with a
\* well-formed envelope, return no error and the list of the array's records,
\* same length and order; an empty array gives an empty list that is not nil.
C6_ListReturned ==
    (/\ op = "GetCrypto" \/ (op = "GetTransactions" /\ args.in = NilPtr)
     /\ WellFormedEnvelope) =>
        LET arr == response.body.doc[EnvelopeKey].v
        IN  /\ err = NoErr
            /\ result.kind = "list"
            /\ Len(result.items) = Len(arr)
            /\ \A i \in 1..Len(arr) :
                  result.items[i] = DecodeObject(EnvelopeSchema, arr[i]).rec

C6_Witness ==
    /\ op = "GetCrypto"
    /\ response = HTTPResponse(200, Document("crypto" :> JArr(<<>>)))
    /\ result = ListResult(<<>>)
    /\ err = NoErr

PayloadError ==
    IF op = "UpdateTransaction" THEN ValidateUpdateTransaction(args.in)
    ELSE ValidateUpdateCrypto(args.in)

DecodedResponse ==
    IF op = "UpdateTransaction" THEN DecodeUpdateTransactionResp(response.body).resp
    ELSE DecodeCrypto(response.body).resp

PresentKeys(fields, payload) ==
    {fields[i][2] : i \in {j \in 1..Len(fields) : payload[fields[j][1]] # NilPtr}}

GoField(fields, k) == fields[CHOOSE i \in 1..Len(fields) : fields[i][2] = k][1]

UpdateFields ==
    IF op = "UpdateTransaction" THEN UpdateTransactionFields ELSE UpdateCryptoFields

\* the object of fields in the body of the Put
SentFields ==
    IF op = "UpdateTransaction" THEN requests[1].body.v["transaction"].v
    ELSE requests[1].body.v

\* C9: the body of the Put of an update holds the fields of the payload that
\* are present, each with its value, and no other; a field present with an
\* empty value is sent with it.  The fields of UpdateTransaction are nested
\* under the single key "transaction".
C9_OnlyPresentFieldsSent ==
    (op \in Updates /\ requests # <<>>) =>
        /\ requests[1].method = "PUT"
        /\ requests[1].body.t = "obj"
        /\ op = "UpdateTransaction" =>
              /\ DOMAIN requests[1].body.v = {"transaction"}
              /\ requests[1].body.v["transaction"].t = "obj"
        /\ DOMAIN SentFields = PresentKeys(UpdateFields, args.in[1])
        /\ \A k \in DOMAIN SentFields :
              SentFields[k].v = args.in[1][GoField(UpdateFields, k)][1]

C9_Witness ==
    /\ op = "UpdateTransaction"
    /\ requests # <<>>
    /\ args.in[1].Payee = Ptr("")
    /\ args.in[1].Notes = NilPtr
    /\ args.in[1].CategoryID = Ptr(0)
    /\ "payee" \in DOMAIN SentFields
    /\ SentFields["payee"] = JStr("")
    /\ "notes" \notin DOMAIN SentFields

\* the optional fields of a record, and the zero value each can arrive with
OptionalKeys ==
    IF op = "GetCrypto"
    THEN {"id", "zabo_account_id", "display_name", "institution_name", "to_base"}
    ELSE {"parent_id", "group_id", "category_id", "recurring_id", "asset_id"}

ZeroJSON(k) == IF k \in {"display_name", "institution_name"} THEN JStr("") ELSE JNum(0)

\* the pairs <<JSON object received, record returned>> of a successful read
ReturnedRecords ==
    IF op = "GetTransaction" THEN {<<response.body.doc, result.rec>>}
    ELSE IF result.kind = "list"
    THEN {<<response.body.doc[EnvelopeKey].v[i], result.items[i]>> :
             i \in 1..Len(result.items)}
    ELSE {}

\* C10: in a record returned by a read, an optional field that arrived as
\* null is in a state that differs from the one the same field has when it
\* arrives present with its zero value.
C10_NullIsAbsent ==
    (op \in Reads /\ err = NoErr /\ ResponseOK) =>
        \A p \in ReturnedRecords : \A k \in OptionalKeys :
            Lookup(p[1], k) = JNull =>
                p[2][k] # DecodeObject(EnvelopeSchema, (k :> ZeroJSON(k)) @@ p[1]).rec[k]

\* a date that is present and not of the shape YYYY-MM-DD
BadDate(s) == s # DateEmpty /\ ~MatchesYMD(s)

\* the transactions a read handed to its caller
ReturnedTransactions ==
    IF result.kind = "record" THEN {result.rec}
    ELSE IF result.kind = "list"
    THEN {result.items[i] : i \in 1..Len(result.items)}
    ELSE {}

\* the transactions of the decoded response of a read
DecodedTransactions ==
    IF op = "GetTransaction" THEN {DecodeTransaction(response.body).resp}
    ELSE LET sl == DecodeTransactionsResponse(response.body).resp.transactions
         IN  IF sl.kind = "list" THEN {sl.items[i] : i \in 1..Len(sl.items)} ELSE {}

\* C11: GetTransactions and GetTransaction return no transaction whose date
\* is present and not of the shape YYYY-MM-DD; when a transaction of the
\* decoded response has such a date, the call returns the validation error
\* and a nil result.
C11_ReturnedDatesValid ==
    op \in FilterReads =>
        /\ err = NoErr => \A t \in ReturnedTransactions : ~BadDate(t["date"])
        /\ (/\ ResponseOK
            /\ BodyDecodeError = NoErr
            /\ \E t \in DecodedTransactions : BadDate(t["date"])) =>
              /\ err = NewErr(FieldError("Transaction", "Date", "datetime"))
              /\ result = NilResult

====
